---- MODULE Spec2Model ----
(***************************************************************************)
(* sensorutils: the UCI-HAR dataset loader (datasets/ucihar.py) and the    *)
(* evaluation metrics (metrics.py).                                        *)
(*                                                                         *)
(* Part I models the dataset object: the files on disk, the two meta       *)
(* DataFrames the object holds (as references into a heap of column        *)
(* buffers, so that views and in-place updates are visible), and the       *)
(* operations load_meta and load.                                          *)
(* Part II models the metrics as operators over exact extended reals.      *)
(***************************************************************************)
EXTENDS Integers, Sequences, FiniteSets, TLC

VARIABLES
    meta_files,     \* y_*.txt and subject_*.txt: file name -> column of integers
    signal_files,   \* Inertial Signals/*.txt: file name -> 2-D array (rows of cells)
    heap,           \* numpy buffers that outlive a call: reference -> sequence of integers
    train_metas,    \* self.train_metas: [activity |-> ref, person_id |-> ref]
    test_metas,     \* self.test_metas
    call,           \* the last operation invoked on the dataset object, with its arguments
    result,         \* what that operation returned
    ncalls,         \* how many operations the dataset object has served so far
    mcall,          \* the last metric invoked, with its arguments
    mresult         \* what that metric returned

vars == <<meta_files, signal_files, heap, train_metas, test_metas, call, result, ncalls,
          mcall, mresult>>

(***************************************************************************)
(* Bounds of the model.                                                    *)
(***************************************************************************)
\* samples of the whole dataset (train and test together)
MaxSamples == 3
\* columns (timesteps) of every signal file
Timesteps == 2
\* length of a person_list argument
MaxListLen == 2
\* operations invoked on one dataset object, one after the other
MaxCalls == 2

(***************************************************************************)
(* Program constants.                                                      *)
(***************************************************************************)
\* PERSONS = list(range(1, 31))
NumPersons == 30
PERSONS == [i \in 1..NumPersons |-> i]
\* ACTIVITIES has six entries; raw activity codes are 1..6
NumActivities == 6

\* Values found in the meta files: the two ends of the raw activity range, and
\* a subject id inside PERSONS (1) and one outside it (NumPersons + 1): the
\* loader validates neither.
RawActivities == {1, NumActivities}
DataPersons == {1, NumPersons + 1}
\* Ids a caller may list: the two in the data, and one absent from it (3).
ListedPersons == {1, 3, NumPersons + 1}

(***************************************************************************)
(* Generic helpers.                                                        *)
(***************************************************************************)
Range(s) == {s[i] : i \in 1..Len(s)}

SeqsUpTo(S, n) == UNION {[1..k -> S] : k \in 0..n}

RECURSIVE TrueCount(_)
TrueCount(flags) ==
    IF flags = <<>> THEN 0
    ELSE (IF Head(flags) THEN 1 ELSE 0) + TrueCount(Tail(flags))

(***************************************************************************)
(* The files on disk.                                                      *)
(***************************************************************************)
MetaFileNames ==
    {"train/y_train.txt", "train/subject_train.txt",
     "test/y_test.txt", "test/subject_test.txt"}

SignalFileNames ==
    {"train/Inertial Signals/total_acc_x_train.txt",
     "train/Inertial Signals/total_acc_y_train.txt",
     "train/Inertial Signals/total_acc_z_train.txt",
     "test/Inertial Signals/total_acc_x_test.txt",
     "test/Inertial Signals/total_acc_y_test.txt",
     "test/Inertial Signals/total_acc_z_test.txt",
     "train/Inertial Signals/body_acc_x_train.txt",
     "train/Inertial Signals/body_acc_y_train.txt",
     "train/Inertial Signals/body_acc_z_train.txt",
     "test/Inertial Signals/body_acc_x_test.txt",
     "test/Inertial Signals/body_acc_y_test.txt",
     "test/Inertial Signals/body_acc_z_test.txt"}

IsTrainFile(name) ==
    name \in {"train/Inertial Signals/total_acc_x_train.txt",
              "train/Inertial Signals/total_acc_y_train.txt",
              "train/Inertial Signals/total_acc_z_train.txt",
              "train/Inertial Signals/body_acc_x_train.txt",
              "train/Inertial Signals/body_acc_y_train.txt",
              "train/Inertial Signals/body_acc_z_train.txt"}

\* The number stored at row i, column t of a signal file.  Every cell of every
\* file is a distinct value, so a cell of an array tells where it was read from.
Cell(name, i, t) == [file |-> name, row |-> i, col |-> t]

\* A signal file with n rows: one row per sample, one column per timestep.
SignalFile(name, n) == [i \in 1..n |-> [t \in 1..Timesteps |-> Cell(name, i, t)]]

(***************************************************************************)
(* pandas / numpy operations used by the loader.                           *)
(***************************************************************************)
\* pd.read_csv(...).to_numpy() of a signal file: the file's rows, as read
read_csv(files, name) == files[name]

\* x[:, np.newaxis, :] : shape (n, T) -> (n, 1, T)
NewAxis(x) == [i \in 1..Len(x) |-> <<x[i]>>]

\* (a slip: the y array stacked first)
Concatenate1_yxz(a, b, c) == [i \in 1..Len(a) |-> b[i] \o a[i] \o c[i]]

\* np.concatenate([a, b, c], axis=1) of three arrays of shape (n, 1, T)
Concatenate1(a, b, c) == [i \in 1..Len(a) |-> a[i] \o b[i] \o c[i]]

\* np.zeros((n,), dtype=bool)
Zeros(n) == [i \in 1..n |-> FALSE]

\* column == scalar, elementwise
EqScalar(col, v) == [i \in 1..Len(col) |-> col[i] = v]

\* np.logical_or of two 1-D boolean arrays; numpy broadcasts a length-1 operand
\* and rejects any other pair of different lengths
Broadcastable(a, b) == Len(a) = Len(b) \/ Len(a) = 1 \/ Len(b) = 1

BroadcastLen(a, b) ==
    IF Len(a) = Len(b) THEN Len(a) ELSE IF Len(a) = 1 THEN Len(b) ELSE Len(a)

\* (a slip: exclusive or, under which an id listed twice cancels itself)
LogicalXor(a, b) ==
    [i \in 1..BroadcastLen(a, b) |->
        (IF Len(a) = 1 THEN a[1] ELSE a[i]) # (IF Len(b) = 1 THEN b[1] ELSE b[i])]

LogicalOr(a, b) ==
    [i \in 1..BroadcastLen(a, b) |->
        (IF Len(a) = 1 THEN a[1] ELSE a[i]) \/ (IF Len(b) = 1 THEN b[1] ELSE b[i])]

\* a[flags] with a boolean mask over the first axis: the rows whose flag is
\* set, in their order
RECURSIVE MaskSelect(_, _)
MaskSelect(a, flags) ==
    IF a = <<>> THEN <<>>
    ELSE (IF Head(flags) THEN <<Head(a)>> ELSE <<>>) \o MaskSelect(Tail(a), Tail(flags))

\* A reference not yet in the heap
FreshRef(h) == CHOOSE r \in 1..(Cardinality(DOMAIN h) + 1) : r \notin DOMAIN h

\* series.to_numpy(): no copy, the array is a view of the column's buffer
ToNumpy(h, ref) == ref

\* (a slip: a mask that selects everything handled like the slice arr[:], a view)
BoolIndexView(h, ref, flags) ==
    IF \A i \in 1..Len(flags) : flags[i]
    THEN [heap |-> h, ref |-> ref]
    ELSE LET r == FreshRef(h)
         IN  [heap |-> h @@ (r :> MaskSelect(h[ref], flags)), ref |-> r]

\* arr[flags] on a buffer: boolean (advanced) indexing always allocates a new
\* buffer holding the selected elements
BoolIndex(h, ref, flags) ==
    LET r == FreshRef(h)
    IN  [heap |-> h @@ (r :> MaskSelect(h[ref], flags)), ref |-> r]

\* (a slip: `labels - k` with the difference thrown away)
ISubDropped(h, ref, k) == h

\* labels -= k : in place, on the buffer `ref` refers to
ISub(h, ref, k) == [h EXCEPT ![ref] = [i \in 1..Len(h[ref]) |-> h[ref][i] - k]]

\* (a slip: the first rows of the column instead of the selected ones)
ILocColumnHead(h, ref, flags) == SubSeq(h[ref], 1, TrueCount(flags))

\* metas.iloc[flags]['person_id'] then np.array(...): the selected rows' ids, copied
ILocColumn(h, ref, flags) == MaskSelect(h[ref], flags)

\* np.stack([a, b]).T : row i is (a[i], b[i])
StackT(a, b) == [i \in 1..Len(a) |-> <<a[i], b[i]>>]

(***************************************************************************)
(* load_meta(path): the two meta DataFrames, each one buffer per column.   *)
(***************************************************************************)
load_meta(mf) ==
    LET h == (1 :> mf["train/y_train.txt"]) @@ (2 :> mf["train/subject_train.txt"])
             @@ (3 :> mf["test/y_test.txt"]) @@ (4 :> mf["test/subject_test.txt"])
    IN  [heap |-> h,
         train |-> [activity |-> 1, person_id |-> 2],
         test |-> [activity |-> 3, person_id |-> 4]]

(***************************************************************************)
(* load(path, train, include_gravity): the module-level window assembler.  *)
(***************************************************************************)
\* (a slip: the last branch copied from the one above it, path unedited)
SignalPathCopied(train, include_gravity, axis) ==
    IF include_gravity
    THEN IF train
         THEN "train/Inertial Signals/total_acc_" \o axis \o "_train.txt"
         ELSE "test/Inertial Signals/total_acc_" \o axis \o "_test.txt"
    ELSE "train/Inertial Signals/body_acc_" \o axis \o "_train.txt"

SignalPath(train, include_gravity, axis) ==
    IF include_gravity
    THEN IF train
         THEN "train/Inertial Signals/total_acc_" \o axis \o "_train.txt"
         ELSE "test/Inertial Signals/total_acc_" \o axis \o "_test.txt"
    ELSE IF train
         THEN "train/Inertial Signals/body_acc_" \o axis \o "_train.txt"
         ELSE "test/Inertial Signals/body_acc_" \o axis \o "_test.txt"

load(files, train, include_gravity) ==
    LET x == read_csv(files, SignalPath(train, include_gravity, "x"))
        y == read_csv(files, SignalPath(train, include_gravity, "y"))
        z == read_csv(files, SignalPath(train, include_gravity, "z"))
    IN  Concatenate1(NewAxis(x), NewAxis(y), NewAxis(z))

(***************************************************************************)
(* UCIHAR.load(train, person_list, include_gravity).                       *)
(* person_list is [none |-> TRUE, ids |-> <<>>] for None, else its ids.    *)
(***************************************************************************)
NoneList == [none |-> TRUE, ids |-> <<>>]
ListOf(ids) == [none |-> FALSE, ids |-> ids]

SelectMetas(train, tm, sm) == IF train THEN tm ELSE sm

\* the loop over person_list: flags = flags OR (metas['person_id'] == person_id).
\* "error" stands for the exception numpy raises on operands it cannot broadcast.
RECURSIVE BuildFlags(_, _, _)
BuildFlags(flags, col, ids) ==
    IF ids = <<>> THEN [ok |-> TRUE, flags |-> flags]
    ELSE LET m == EqScalar(col, Head(ids))
         IN  IF Broadcastable(flags, m)
             THEN BuildFlags(LogicalOr(flags, m), col, Tail(ids))
             ELSE [ok |-> FALSE, flags |-> flags]

ErrorResult == [status |-> "error", sdata |-> <<>>, targets |-> <<>>]

UCIHAR_load(h, tm, sm, files, train, person_list, include_gravity) ==
    LET sdata == load(files, train, include_gravity)
        metas == SelectMetas(train, tm, sm)
        ids == IF person_list.none THEN PERSONS ELSE person_list.ids
        built == BuildFlags(Zeros(Len(sdata)), h[metas.person_id], ids)
        flags == built.flags
    IN  IF ~built.ok \/ Len(flags) # Len(sdata) \/ Len(flags) # Len(h[metas.activity])
        THEN [heap |-> h, ret |-> ErrorResult]
        ELSE LET picked == MaskSelect(sdata, flags)
                 view == ToNumpy(h, metas.activity)
                 sel == BoolIndex(h, view, flags)
                 h2 == ISub(sel.heap, sel.ref, 1)
                 labels == h2[sel.ref]
                 person_id_list == ILocColumn(h2, metas.person_id, flags)
                 targets == StackT(labels, person_id_list)
             IN  [heap |-> [r \in DOMAIN h |-> h2[r]],
                  ret |-> [status |-> "ok", sdata |-> picked, targets |-> targets]]

(***************************************************************************)
(* The dataset object as a state machine.                                  *)
(***************************************************************************)
NoCall == [op |-> "none", train |-> TRUE, person_list |-> NoneList, include_gravity |-> TRUE]
NoResult == [status |-> "none", sdata |-> <<>>, targets |-> <<>>]

PersonLists == {NoneList} \cup {ListOf(ids) : ids \in SeqsUpTo(ListedPersons, MaxListLen)}

\* A well-formed dataset: every file of a split has one row per sample of the
\* split, and no file is empty (pd.read_csv refuses an empty file, so the
\* object could not have been constructed).  UCIHAR.__init__ has run:
\* load_meta has populated the two DataFrames.
DInit ==
    \E nTrain \in 1..(MaxSamples - 1) :
    \E nTest \in 1..(MaxSamples - nTrain) :
    \E yTrain \in [1..nTrain -> RawActivities], sTrain \in [1..nTrain -> DataPersons] :
    \E yTest \in [1..nTest -> RawActivities], sTest \in [1..nTest -> DataPersons] :
        /\ meta_files = [n \in MetaFileNames |->
                            CASE n = "train/y_train.txt" -> yTrain
                              [] n = "train/subject_train.txt" -> sTrain
                              [] n = "test/y_test.txt" -> yTest
                              [] OTHER -> sTest]
        /\ signal_files = [n \in SignalFileNames |->
                              SignalFile(n, IF IsTrainFile(n) THEN nTrain ELSE nTest)]
        /\ LET m == load_meta(meta_files)
           IN  /\ heap = m.heap
               /\ train_metas = m.train
               /\ test_metas = m.test
        /\ call = NoCall
        /\ result = NoResult
        /\ ncalls = 0

\* UCIHAR.load_meta(), called again after construction
LoadMeta ==
    /\ call.op = "none"
    /\ ncalls < MaxCalls
    /\ ncalls' = ncalls + 1
    /\ LET m == load_meta(meta_files)
       IN  /\ heap' = m.heap
           /\ train_metas' = m.train
           /\ test_metas' = m.test
    /\ call' = [NoCall EXCEPT !.op = "load_meta"]
    /\ result' = NoResult
    /\ UNCHANGED <<meta_files, signal_files, mcall, mresult>>

\* UCIHAR.load(train, person_list, include_gravity)
Load ==
    /\ call.op = "none"
    /\ ncalls < MaxCalls
    /\ ncalls' = ncalls + 1
    /\ \E train \in BOOLEAN, include_gravity \in BOOLEAN, person_list \in PersonLists :
        LET out == UCIHAR_load(heap, train_metas, test_metas, signal_files,
                               train, person_list, include_gravity)
        IN  /\ heap' = out.heap
            /\ result' = out.ret
            /\ call' = [op |-> "load", train |-> train, person_list |-> person_list,
                        include_gravity |-> include_gravity]
            /\ UNCHANGED <<meta_files, signal_files, train_metas, test_metas, mcall, mresult>>

\* The caller takes the returned value; the object is ready for the next call.
Return ==
    /\ call.op # "none"
    /\ call' = NoCall
    /\ result' = NoResult
    /\ UNCHANGED <<meta_files, signal_files, heap, train_metas, test_metas, ncalls,
                   mcall, mresult>>

\* load(path, train, include_gravity), the module-level function, called directly
ModuleLoad ==
    /\ call.op = "none"
    /\ ncalls < MaxCalls
    /\ ncalls' = ncalls + 1
    /\ \E train \in BOOLEAN, include_gravity \in BOOLEAN :
        /\ result' = [status |-> "ok", sdata |-> load(signal_files, train, include_gravity),
                      targets |-> <<>>]
        /\ call' = [op |-> "module_load", train |-> train, person_list |-> NoneList,
                    include_gravity |-> include_gravity]
    /\ UNCHANGED <<meta_files, signal_files, heap, train_metas, test_metas, mcall, mresult>>

Init ==
    /\ DInit
    /\ mcall = [fn |-> "none"]
    /\ mresult = [status |-> "none"]

Next == LoadMeta \/ Load \/ ModuleLoad \/ Return

Spec == Init /\ [][Next]_vars

(***************************************************************************)
(* What the dataset claims speak of, stated from the files on disk and the *)
(* arguments of the call alone.                                            *)
(***************************************************************************)
IsLoad == call.op = "load"

\* the label and subject columns of a split, as stored on disk
RawActivity(train) ==
    IF train THEN meta_files["train/y_train.txt"] ELSE meta_files["test/y_test.txt"]
RawPerson(train) ==
    IF train THEN meta_files["train/subject_train.txt"] ELSE meta_files["test/subject_test.txt"]

\* the ids a person_list asks for: None stands for 1..30
Wanted(person_list) ==
    IF person_list.none THEN 1..NumPersons ELSE Range(person_list.ids)

\* the rows of a split whose subject is asked for
KeptRows(train, person_list) ==
    {i \in 1..Len(RawPerson(train)) : RawPerson(train)[i] \in Wanted(person_list)}

\* the k-th smallest element of a finite set of integers
Nth(S, k) == CHOOSE i \in S : Cardinality({j \in S : j < i}) = k - 1

\* the row of the split's signal files a returned window was read from
SourceRow(window) == window[1][1].row

\* the targets row the claims expect for row i of a split
TargetOf(train, i) == <<RawActivity(train)[i] - 1, RawPerson(train)[i]>>

\* the signal file of a split, variant and channel (1 = x, 2 = y, 3 = z), by
\* the directory layout
ChannelAxis(c) == CASE c = 1 -> "x" [] c = 2 -> "y" [] OTHER -> "z"
LayoutFile(train, include_gravity, c) ==
    (IF train THEN "train" ELSE "test") \o "/Inertial Signals/"
    \o (IF include_gravity THEN "total_acc_" ELSE "body_acc_")
    \o ChannelAxis(c) \o "_" \o (IF train THEN "train" ELSE "test") \o ".txt"

\* C1: UCIHAR.load completes without error, for every split, variant and
\* person_list, and retains exactly the samples whose person_id is a member
\* of person_list (None: 1..30), each once and in the original order.
C1_RetainsExactlyListed ==
    IsLoad =>
        /\ result.status = "ok"
        /\ Len(result.sdata) = Cardinality(KeptRows(call.train, call.person_list))
        /\ {SourceRow(result.sdata[k]) : k \in 1..Len(result.sdata)}
               = KeptRows(call.train, call.person_list)
        /\ \A k \in 1..(Len(result.sdata) - 1) :
               SourceRow(result.sdata[k]) < SourceRow(result.sdata[k + 1])

\* a call whose list names an id twice and an id the split lacks, and that
\* keeps one sample of a split and drops another
C1_Witness ==
    /\ IsLoad /\ result.status = "ok"
    /\ ~call.person_list.none
    /\ call.person_list.ids \in {<<1, 1>>, <<3, NumPersons + 1>>}
    /\ Len(result.sdata) = 1
    /\ Len(RawPerson(call.train)) = 2

\* C2: windows and targets have the same number of rows, the number of
\* retained samples, and row i of both comes from the same source sample.
C2_RowsAligned ==
    IsLoad =>
        /\ Len(result.sdata) = Len(result.targets)
        /\ Len(result.targets) = Cardinality(KeptRows(call.train, call.person_list))
        /\ \A k \in 1..Len(result.targets) :
               /\ k <= Len(result.sdata)
               /\ result.targets[k] = TargetOf(call.train, SourceRow(result.sdata[k]))

\* two retained samples that differ in activity and in subject, the second
\* row of the split retained without the first
C2_Witness ==
    /\ IsLoad
    /\ Len(result.sdata) = 1 /\ Len(result.targets) = 1
    /\ SourceRow(result.sdata[1]) = 2
    /\ TargetOf(call.train, 1) # TargetOf(call.train, 2)
    /\ RawActivity(call.train)[1] # RawActivity(call.train)[2]

\* C3: for every retained sample the targets row holds the raw activity code
\* minus 1 in column 0 and the person_id unchanged in column 1; the
\* subtraction is applied once per call, whatever person_list is.
C3_TargetsRemapped ==
    IsLoad =>
        LET kept == KeptRows(call.train, call.person_list)
        IN  /\ Len(result.targets) = Cardinality(kept)
            /\ \A k \in 1..Len(result.targets) :
                   /\ result.targets[k][1] = RawActivity(call.train)[Nth(kept, k)] - 1
                   /\ result.targets[k][2] = RawPerson(call.train)[Nth(kept, k)]

\* the last of several calls on the object, with person_list None, returning
\* the remapped label of the highest raw code and dropping a subject outside
\* 1..30
C3_Witness ==
    /\ IsLoad /\ ncalls = MaxCalls
    /\ call.person_list.none
    /\ Len(result.targets) < Len(RawPerson(call.train))
    /\ \E k \in 1..Len(result.targets) : result.targets[k] = <<NumActivities - 1, 1>>

\* the contents of the two MetaTables the object holds
HeldActivity(train) == heap[(IF train THEN train_metas ELSE test_metas).activity]
HeldPerson(train) == heap[(IF train THEN train_metas ELSE test_metas).person_id]

\* what a call returns on an object just constructed from the same files
FreshReturn(c) ==
    LET m == load_meta(meta_files)
    IN  UCIHAR_load(m.heap, m.train, m.test, signal_files,
                    c.train, c.person_list, c.include_gravity).ret

\* C4: after any sequence of load calls the MetaTables the object holds are
\* those of construction, so a call returns what the same call returns at
\* any other time.
C4_MetaTablesIntact ==
    /\ \A train \in BOOLEAN :
           /\ HeldActivity(train) = RawActivity(train)
           /\ HeldPerson(train) = RawPerson(train)
    /\ IsLoad => result = FreshReturn(call)

\* a call that retains every sample of its split, made after an earlier call
C4_Witness ==
    /\ IsLoad /\ ncalls = MaxCalls
    /\ Len(result.targets) = 2
    /\ Len(RawPerson(call.train)) = 2

\* C5: load reads the three signal files of exactly the split and variant
\* asked for, and takes the targets from the MetaTable of that same split.
C5_SplitAndVariant ==
    IsLoad =>
        /\ result.status = "ok"
        /\ \A k \in 1..Len(result.sdata) : \A c \in 1..3 : \A t \in 1..Timesteps :
               result.sdata[k][c][t].file
                   = LayoutFile(call.train, call.include_gravity, c)
        /\ Len(result.targets) = Cardinality(KeptRows(call.train, call.person_list))
        /\ \A k \in 1..Len(result.targets) :
               \E i \in 1..Len(RawPerson(call.train)) :
                   result.targets[k] = TargetOf(call.train, i)

\* a call for the test split without gravity, on a dataset whose two splits
\* hold different samples
C5_Witness ==
    /\ IsLoad
    /\ ~call.train /\ ~call.include_gravity
    /\ Len(result.sdata) = 1
    /\ Len(RawPerson(TRUE)) = 1
    /\ TargetOf(TRUE, 1) # TargetOf(FALSE, 1)

\* C6: the module-level load returns an array of shape (samples, 3,
\* timesteps) whose channels 0, 1, 2 hold the x, y and z file's values, row
\* for row and column for column.
C6_WindowsStacked ==
    call.op = "module_load" =>
        LET x == signal_files[LayoutFile(call.train, call.include_gravity, 1)]
        IN  /\ Len(result.sdata) = Len(x)
            /\ \A i \in 1..Len(result.sdata) :
                   /\ Len(result.sdata[i]) = 3
                   /\ \A c \in 1..3 :
                          /\ Len(result.sdata[i][c]) = Timesteps
                          /\ \A t \in 1..Timesteps :
                                 result.sdata[i][c][t] =
                                     signal_files[LayoutFile(call.train,
                                         call.include_gravity, c)][i][t]

\* a direct call that returns two windows
C6_Witness ==
    /\ call.op = "module_load"
    /\ Len(result.sdata) = 2
    /\ Len(result.sdata[2]) = 3

(***************************************************************************)
(* Part II.  Numbers.                                                      *)
(*                                                                         *)
(* A number is a record [k, n, d, a]:                                      *)
(*   k = "rat"          the rational n/d in lowest terms, d > 0            *)
(*   k = "nan", "inf", "ninf"   IEEE not-a-number and the two infinities   *)
(*   k = "log10", "ln"  (n/d) * log(a[1]) with a[1] a rational > 1         *)
(*   k = "sqrt"         the square root of a[1], not a rational            *)
(*   k = "sq"           the square of the irrational a[1]                  *)
(*   k = "scale"        (n/d) * a[1]                                       *)
(*   k = "abs"          |a[1]|, a[1] of undetermined sign                  *)
(*   k = "sum"          the sum of the numbers of a                        *)
(* Rationals and the IEEE specials are computed exactly; an irrational     *)
(* value is kept as the expression that denotes it.  Rounding is left out. *)
(***************************************************************************)
RECURSIVE GCD(_, _)
GCD(x, y) == IF y = 0 THEN x ELSE GCD(y, x % y)

AbsInt(x) == IF x < 0 THEN -x ELSE x

Rat(n, d) ==
    LET g == GCD(AbsInt(n), AbsInt(d))
        sgn == IF d < 0 THEN -1 ELSE 1
    IN  [k |-> "rat", n |-> sgn * (n \div g), d |-> sgn * (d \div g), a |-> <<>>]

Int2Num(i) == Rat(i, 1)
NaN == [k |-> "nan", n |-> 0, d |-> 1, a |-> <<>>]
PInf == [k |-> "inf", n |-> 0, d |-> 1, a |-> <<>>]
NInf == [k |-> "ninf", n |-> 0, d |-> 1, a |-> <<>>]
Zero == Rat(0, 1)
One == Rat(1, 1)

IsRat(x) == x.k = "rat"
IsNaN(x) == x.k = "nan"
IsInfinite(x) == x.k \in {"inf", "ninf"}
IsFinite(x) == x.k \notin {"nan", "inf", "ninf"}
IsTerm(x) == x.k \notin {"rat", "nan", "inf", "ninf"}
IsLog(x) == x.k \in {"log10", "ln"}

SignInt(i) == IF i > 0 THEN 1 ELSE IF i < 0 THEN -1 ELSE 0

\* 1, 0 or -1; 2 when the sign of an expression is not determined by its form
RECURSIVE Sign(_)
Sign(x) ==
    CASE x.k = "rat" -> SignInt(x.n)
      [] x.k = "inf" -> 1
      [] x.k = "ninf" -> -1
      [] x.k = "nan" -> 2
      [] x.k \in {"log10", "ln"} -> SignInt(x.n)
      [] x.k \in {"sq", "sqrt", "abs"} -> 1
      [] x.k = "scale" -> IF Sign(x.a[1]) = 2 THEN 2 ELSE SignInt(x.n) * Sign(x.a[1])
      [] OTHER ->
            IF \A i \in 1..Len(x.a) : Sign(x.a[i]) \in {0, 1} THEN 1
            ELSE IF \A i \in 1..Len(x.a) : Sign(x.a[i]) \in {0, -1} THEN -1
            ELSE 2

RatMul(x, y) == Rat(x.n * y.n, x.d * y.d)
RatAdd(x, y) == Rat(x.n * y.d + y.n * x.d, x.d * y.d)
RatInv(x) == Rat(x.d, x.n)
RatLess(x, y) == x.n * y.d < y.n * x.d

\* the exponent e with n = 10^e, or -1 when n is no power of ten
RECURSIVE Pow10Exp(_)
Pow10Exp(n) ==
    IF n = 1 THEN 0
    ELSE IF n <= 0 \/ n % 10 # 0 THEN -1
    ELSE LET e == Pow10Exp(n \div 10) IN IF e = -1 THEN -1 ELSE e + 1

RECURSIVE Pow10(_)
Pow10(e) == IF e = 0 THEN 1 ELSE 10 * Pow10(e - 1)

\* c * log_base(q) for rationals c and q > 0, in canonical form
LogForm(base, c, q) ==
    IF c.n = 0 \/ (q.n = q.d) THEN Zero
    ELSE LET up == IF RatLess(q, One) THEN RatInv(q) ELSE q
             cc == IF RatLess(q, One) THEN Rat(-c.n, c.d) ELSE c
             e == IF base = "log10" /\ up.d = 1 THEN Pow10Exp(up.n) ELSE -1
         IN  IF e > 0 THEN Rat(cc.n * e, cc.d)
             ELSE [k |-> base, n |-> cc.n, d |-> cc.d, a |-> <<up>>]

Coef(x) == Rat(x.n, x.d)

\* c * x for a rational c
RECURSIVE Scale(_, _)
Scale(c, x) ==
    CASE x.k = "nan" -> NaN
      [] x.k \in {"inf", "ninf"} ->
            IF c.n = 0 THEN NaN
            ELSE IF SignInt(c.n) * Sign(x) > 0 THEN PInf ELSE NInf
      [] x.k = "rat" -> RatMul(c, x)
      [] OTHER ->
            IF c.n = 0 THEN Zero
            ELSE IF c = One THEN x
            ELSE IF IsLog(x) THEN LogForm(x.k, RatMul(c, Coef(x)), x.a[1])
            ELSE IF x.k = "scale" THEN Scale(RatMul(c, Coef(x)), x.a[1])
            ELSE [k |-> "scale", n |-> c.n, d |-> c.d, a |-> <<x>>]

Neg(x) == Scale(Rat(-1, 1), x)

Terms(x) == IF x.k = "sum" THEN x.a ELSE <<x>>

\* x + y
Add(x, y) ==
    CASE IsNaN(x) \/ IsNaN(y) -> NaN
      [] IsInfinite(x) /\ IsInfinite(y) -> IF x = y THEN x ELSE NaN
      [] IsInfinite(x) -> x
      [] IsInfinite(y) -> y
      [] IsRat(x) /\ IsRat(y) -> RatAdd(x, y)
      [] IsRat(x) /\ x.n = 0 -> y
      [] IsRat(y) /\ y.n = 0 -> x
      [] IsLog(x) /\ IsLog(y) /\ x.k = y.k /\ Coef(x) = Coef(y) ->
            LogForm(x.k, Coef(x), RatMul(x.a[1], y.a[1]))
      [] IsLog(x) /\ IsLog(y) /\ x.k = y.k /\ Coef(x) = Coef(Neg(y)) ->
            LogForm(x.k, Coef(x), RatMul(x.a[1], RatInv(y.a[1])))
      [] IsRat(x) /\ y.k = "log10" /\ RatMul(x, RatInv(Coef(y))).d = 1 ->
            LET e == RatMul(x, RatInv(Coef(y))).n
                p == IF e > 0 THEN Rat(Pow10(e), 1) ELSE Rat(1, Pow10(-e))
            IN  LogForm("log10", Coef(y), RatMul(y.a[1], p))
      [] IsRat(y) /\ x.k = "log10" /\ RatMul(y, RatInv(Coef(x))).d = 1 ->
            LET e == RatMul(y, RatInv(Coef(x))).n
                p == IF e > 0 THEN Rat(Pow10(e), 1) ELSE Rat(1, Pow10(-e))
            IN  LogForm("log10", Coef(x), RatMul(x.a[1], p))
      [] OTHER -> [k |-> "sum", n |-> 0, d |-> 1, a |-> Terms(x) \o Terms(y)]

\* x - y
Sub(x, y) == Add(x, Neg(y))

\* |x|
Abs(x) ==
    CASE IsNaN(x) -> NaN
      [] IsInfinite(x) -> PInf
      [] OTHER ->
            IF Sign(x) = -1 THEN Neg(x)
            ELSE IF Sign(x) = 2 THEN [k |-> "abs", n |-> 0, d |-> 1, a |-> <<x>>]
            ELSE x

\* x * x
Square(x) ==
    CASE IsNaN(x) -> NaN
      [] IsInfinite(x) -> PInf
      [] IsRat(x) -> RatMul(x, x)
      [] OTHER -> [k |-> "sq", n |-> 0, d |-> 1,
                   a |-> <<IF Sign(x) = -1 THEN Neg(x) ELSE x>>]

\* x / y with IEEE division by zero, for rationals and specials
Div(x, y) ==
    CASE IsNaN(x) \/ IsNaN(y) -> NaN
      [] IsInfinite(x) /\ IsInfinite(y) -> NaN
      [] IsInfinite(x) -> IF Sign(x) * (IF Sign(y) < 0 THEN -1 ELSE 1) > 0 THEN PInf ELSE NInf
      [] IsInfinite(y) -> Zero
      [] y.n = 0 -> IF x.n = 0 THEN NaN ELSE IF x.n > 0 THEN PInf ELSE NInf
      [] OTHER -> RatMul(x, RatInv(y))

IsSquareInt(n) == \E r \in 0..n : r * r = n
RootInt(n) == CHOOSE r \in 0..n : r * r = n

\* the square root; of a negative number, nan
Sqrt(x) ==
    CASE IsNaN(x) -> NaN
      [] x.k = "ninf" -> NaN
      [] x.k = "inf" -> PInf
      [] IsRat(x) ->
            IF x.n < 0 THEN NaN
            ELSE IF IsSquareInt(x.n) /\ IsSquareInt(x.d) THEN Rat(RootInt(x.n), RootInt(x.d))
            ELSE [k |-> "sqrt", n |-> 0, d |-> 1, a |-> <<x>>]
      [] OTHER ->
            IF Sign(x) = -1 THEN NaN
            ELSE [k |-> "sqrt", n |-> 0, d |-> 1, a |-> <<x>>]

\* the logarithm to the given base ("log10" or "ln") of a rational or special
Log(base, x) ==
    CASE IsNaN(x) -> NaN
      [] x.k = "ninf" -> NaN
      [] x.k = "inf" -> PInf
      [] OTHER ->
            IF x.n < 0 THEN NaN
            ELSE IF x.n = 0 THEN NInf
            ELSE LogForm(base, One, x)

(***************************************************************************)
(* Arrays: [shape, data] with data in row-major order.  The shape <<>> is  *)
(* a scalar, <<n>> a vector, <<r, c>> a matrix.  An axis argument is <<>>  *)
(* for None and <<k>> for axis k.                                          *)
(***************************************************************************)
RECURSIVE Size(_)
Size(shape) == IF shape = <<>> THEN 1 ELSE Head(shape) * Size(Tail(shape))

Arr(shape, data) == [shape |-> shape, data |-> data]
Scalar(x) == Arr(<<>>, <<x>>)
NoAxis == <<>>
Axis(k) == <<k>>

\* elementwise operations on arrays of one shape
ArrSub(a, b) == Arr(a.shape, [i \in 1..Len(a.data) |-> Sub(a.data[i], b.data[i])])
ArrDiv(a, b) == Arr(a.shape, [i \in 1..Len(a.data) |-> Div(a.data[i], b.data[i])])
ArrAbs(a) == Arr(a.shape, [i \in 1..Len(a.data) |-> Abs(a.data[i])])
ArrSquare(a) == Arr(a.shape, [i \in 1..Len(a.data) |-> Square(a.data[i])])
ArrSqrt(a) == Arr(a.shape, [i \in 1..Len(a.data) |-> Sqrt(a.data[i])])
ArrLog10(a) == Arr(a.shape, [i \in 1..Len(a.data) |-> Log("log10", a.data[i])])
ArrLn(a) == Arr(a.shape, [i \in 1..Len(a.data) |-> Log("ln", a.data[i])])

\* np.ones_like(a)
OnesLike(a) == Arr(a.shape, [i \in 1..Len(a.data) |-> One])

\* a + c, a * c for a Python integer c
PlusInt(a, c) == Arr(a.shape, [i \in 1..Len(a.data) |-> Add(a.data[i], Int2Num(c))])
TimesInt(a, c) == Arr(a.shape, [i \in 1..Len(a.data) |-> Scale(Int2Num(c), a.data[i])])

RECURSIVE SumSeq(_)
SumSeq(xs) == IF xs = <<>> THEN Zero ELSE Add(Head(xs), SumSeq(Tail(xs)))

\* the mean of no numbers is 0/0
MeanSeq(xs) ==
    IF xs = <<>> THEN NaN ELSE Scale(Rat(1, Len(xs)), SumSeq(xs))

\* the elements of a matrix along one line of an axis: column j (axis 0) or
\* row i (axis 1)
Column(a, j) == [i \in 1..a.shape[1] |-> a.data[(i - 1) * a.shape[2] + j]]
Row(a, i) == [j \in 1..a.shape[2] |-> a.data[(i - 1) * a.shape[2] + j]]

\* the lines a reduction of a matrix runs over: all elements together for
\* None, else the lines along the axis, one per index of the other axis
Lines(a, axis) ==
    IF axis = NoAxis THEN <<a.data>>
    ELSE IF axis = Axis(0) THEN [j \in 1..a.shape[2] |-> Column(a, j)]
    ELSE [i \in 1..a.shape[1] |-> Row(a, i)]

\* the shape a reduction leaves: a scalar for None, else the other axis
OutShape(a, axis) ==
    IF axis = NoAxis THEN <<>>
    ELSE IF axis = Axis(0) THEN <<a.shape[2]>>
    ELSE <<a.shape[1]>>

\* a.mean(axis=axis), a.sum(axis=axis)
Mean(a, axis) ==
    Arr(OutShape(a, axis), [j \in 1..Len(Lines(a, axis)) |-> MeanSeq(Lines(a, axis)[j])])
Sum(a, axis) ==
    Arr(OutShape(a, axis), [j \in 1..Len(Lines(a, axis)) |-> SumSeq(Lines(a, axis)[j])])

(***************************************************************************)
(* The metrics of metrics.py.                                              *)
(***************************************************************************)
mae(true, pred, axis) == Mean(ArrAbs(ArrSub(true, pred)), axis)

mape(true, pred, axis) == TimesInt(mae(OnesLike(true), ArrDiv(pred, true), axis), 100)

mse(true, pred, axis) == Mean(ArrSquare(ArrSub(true, pred)), axis)

\* (a slip: the square root left out)
rmse_noroot(true, pred, axis) == mse(true, pred, axis)

rmse(true, pred, axis) == ArrSqrt(mse(true, pred, axis))

rmspe(true, pred, axis) == TimesInt(rmse(OnesLike(true), ArrDiv(pred, true), axis), 100)

rmsle(true, pred, axis) == rmse(ArrLn(PlusInt(true, 1)), ArrLn(PlusInt(pred, 1)), axis)

OkReturn(value) == [status |-> "ok", value |-> value]
AssertionError == [status |-> "AssertionError", value |-> Scalar(NaN)]

\* (a slip: only the number of elements compared)
ShapeCheckSize(true, pred) == Size(true.shape) = Size(pred.shape)

\* assert true.shape == pred.shape
ShapeCheck(true, pred) == true.shape = pred.shape

snr(true, pred, axis) ==
    IF ~ShapeCheck(true, pred) THEN AssertionError
    ELSE LET noise_mse == Sum(ArrSquare(ArrSub(true, pred)), axis)
             signal_ms == Sum(ArrSquare(true), axis)
         IN  OkReturn(TimesInt(ArrLog10(ArrDiv(signal_ms, noise_mse)), 10))

\* the axis argument is accepted and not used: np.mean is called without it
lsd(true_spec, pred_spec, axis) ==
    LET ratio == ArrDiv(true_spec, ArrSub(true_spec, pred_spec))
    IN  ArrSqrt(Mean(TimesInt(ArrLog10(ArrAbs(ratio)), 20), NoAxis))

(***************************************************************************)
(* The metrics as a state machine: the arguments are drawn first, then one *)
(* metric is applied to them.                                              *)
(***************************************************************************)
\* elements of one array
MaxCells == 4

Inf == PInf

\* (true, pred) values of one position: equal (zero, finite, infinite), and
\* different with true - pred positive, negative, and a power of ten times
\* smaller than true
CellPairs ==
    {<<Zero, Zero>>, <<Int2Num(2), Int2Num(2)>>, <<Inf, Inf>>,
     <<Int2Num(2), Int2Num(1)>>, <<Int2Num(1), Int2Num(3)>>, <<Int2Num(10), Int2Num(9)>>}

Shapes == {sh \in (0..MaxCells) \X (1..MaxCells) : sh[1] * sh[2] <= MaxCells}

Axes == {NoAxis, Axis(0), Axis(1)}

\* np.full(shape, v)
Full(shape, v) == Arr(shape, [i \in 1..Size(shape) |-> v])

NoMCall == [fn |-> "none", true |-> Scalar(Zero), pred |-> Scalar(Zero), axis |-> NoAxis]
NoMResult == [status |-> "none", value |-> Scalar(Zero)]

\* two arrays of one shape, or two constant arrays of different shapes
MInit ==
    /\ \/ \E sh \in Shapes : \E cells \in [1..Size(sh) -> CellPairs] : \E axis \in Axes :
              mcall = [fn |-> "none",
                       true |-> Arr(sh, [i \in 1..Size(sh) |-> cells[i][1]]),
                       pred |-> Arr(sh, [i \in 1..Size(sh) |-> cells[i][2]]),
                       axis |-> axis]
       \/ \E sh1 \in Shapes, sh2 \in Shapes : \E axis \in Axes :
              /\ sh1 # sh2
              /\ mcall = [fn |-> "none", true |-> Full(sh1, Int2Num(2)),
                          pred |-> Full(sh2, Int2Num(1)), axis |-> axis]
    /\ mresult = NoMResult
    /\ meta_files = <<>> /\ signal_files = <<>> /\ heap = <<>>
    /\ train_metas = [activity |-> 0, person_id |-> 0]
    /\ test_metas = [activity |-> 0, person_id |-> 0]
    /\ call = NoCall /\ result = NoResult /\ ncalls = 0

Ready == mcall.fn = "none" /\ mcall.true.shape = mcall.pred.shape

Returns(fn, ret) ==
    /\ mcall' = [mcall EXCEPT !.fn = fn]
    /\ mresult' = ret
    /\ UNCHANGED <<meta_files, signal_files, heap, train_metas, test_metas, call, result,
                   ncalls>>

Mae == Ready /\ Returns("mae", OkReturn(mae(mcall.true, mcall.pred, mcall.axis)))
Mape == Ready /\ Returns("mape", OkReturn(mape(mcall.true, mcall.pred, mcall.axis)))
Mse == Ready /\ Returns("mse", OkReturn(mse(mcall.true, mcall.pred, mcall.axis)))
Rmse == Ready /\ Returns("rmse", OkReturn(rmse(mcall.true, mcall.pred, mcall.axis)))
Rmspe == Ready /\ Returns("rmspe", OkReturn(rmspe(mcall.true, mcall.pred, mcall.axis)))
Rmsle == Ready /\ Returns("rmsle", OkReturn(rmsle(mcall.true, mcall.pred, mcall.axis)))
Lsd == Ready /\ Returns("lsd", OkReturn(lsd(mcall.true, mcall.pred, mcall.axis)))
Snr == mcall.fn = "none" /\ Returns("snr", snr(mcall.true, mcall.pred, mcall.axis))

MNext == Mae \/ Mape \/ Mse \/ Rmse \/ Rmspe \/ Rmsle \/ Snr \/ Lsd

MetricsSpec == MInit /\ [][MNext]_vars

(***************************************************************************)
(* What the metrics claims speak of.                                       *)
(***************************************************************************)
Called(fn) == mcall.fn = fn /\ mresult.status = "ok"

AxisMetrics == {"mae", "mape", "mse", "rmse", "rmspe", "rmsle", "snr", "lsd"}

\* the value a metric returns, by name
Apply(fn, true, pred, axis) ==
    CASE fn = "mae" -> mae(true, pred, axis)
      [] fn = "mape" -> mape(true, pred, axis)
      [] fn = "mse" -> mse(true, pred, axis)
      [] fn = "rmse" -> rmse(true, pred, axis)
      [] fn = "rmspe" -> rmspe(true, pred, axis)
      [] fn = "rmsle" -> rmsle(true, pred, axis)
      [] fn = "snr" -> snr(true, pred, axis).value
      [] OTHER -> lsd(true, pred, axis)

\* line j of a matrix along axis k, as a matrix of its own
Line(a, k, j) ==
    IF k = 0 THEN Arr(<<a.shape[1], 1>>, Column(a, j))
    ELSE Arr(<<1, a.shape[2]>>, Row(a, j))

\* the length of the axis that axis k leaves
Remaining(a, k) == IF k = 0 THEN a.shape[2] ELSE a.shape[1]

\* the per-element terms of the log spectral distance
LsdTerms(true_spec, pred_spec) ==
    [i \in 1..Len(true_spec.data) |->
        Scale(Int2Num(20),
              Log("log10", Abs(Div(true_spec.data[i],
                            Sub(true_spec.data[i], pred_spec.data[i])))))]

\* C7: lsd returns the square root of the mean of the squared terms
\* 20*log10(|true_spec/(true_spec - pred_spec)|): each term is squared before
\* the mean is taken.
C7_LsdSquaresTerms ==
    (Called("lsd") /\ mcall.axis = NoAxis) =>
        LET terms == LsdTerms(mcall.true, mcall.pred)
        IN  mresult.value
                = Scalar(Sqrt(MeanSeq([i \in 1..Len(terms) |-> Square(terms[i])])))

\* what lsd does return: the square root of the mean of the terms themselves
C7_LsdAsCoded ==
    Called("lsd") =>
        mresult.value = Scalar(Sqrt(MeanSeq(LsdTerms(mcall.true, mcall.pred))))

\* C8: every metric with an axis argument returns a scalar reduced over all
\* elements for axis None, and for axis k one value per line along k, the
\* remaining axis preserved.
C8_AxisReduces ==
    (mcall.fn \in AxisMetrics /\ mresult.status = "ok") =>
        IF mcall.axis = NoAxis
        THEN mresult.value.shape = <<>> /\ Len(mresult.value.data) = 1
        ELSE LET k == mcall.axis[1]
                 n == Remaining(mcall.true, k)
             IN  /\ mresult.value.shape = <<n>>
                 /\ Len(mresult.value.data) = n
                 /\ \A j \in 1..n :
                        mresult.value.data[j]
                            = Apply(mcall.fn, Line(mcall.true, k, j),
                                    Line(mcall.pred, k, j), NoAxis).data[1]

\* the same of the seven metrics other than lsd
C8_AxisReducesButLsd == mcall.fn # "lsd" => C8_AxisReduces

\* C9: snr reports the precondition failure, and computes nothing, exactly
\* when true.shape differs from pred.shape.
C9_SnrShapeCheck ==
    mcall.fn = "snr" =>
        /\ mresult.status \in {"ok", "AssertionError"}
        /\ mresult.status = "AssertionError" <=> mcall.true.shape # mcall.pred.shape
        /\ mresult.status = "AssertionError" => mresult = AssertionError

\* snr refusing two arrays of as many elements and different shapes
C9_Witness ==
    /\ mcall.fn = "snr"
    /\ mcall.true.shape = <<1, 2>> /\ mcall.pred.shape = <<2, 1>>
    /\ mresult.status = "AssertionError"

AllZero(value) == \A i \in 1..Len(value.data) : value.data[i] = Zero

AllFinite(a) == \A i \in 1..Len(a.data) : IsFinite(a.data[i])

\* x * x, of a square root its radicand
Squared(x) == IF x.k = "sqrt" THEN x.a[1] ELSE Square(x)

\* the mean of the squared differences of two sequences
MeanSquares(ts, ps) == MeanSeq([i \in 1..Len(ts) |-> Square(Sub(ts[i], ps[i]))])

\* rmse is the non-negative root of the mean of the squared differences (of
\* what mse returns), over all elements or line by line
RmseIsRootOfMse ==
    Called("rmse") =>
        /\ \A i \in 1..Len(mresult.value.data) : Sign(mresult.value.data[i]) # -1
        /\ IF mcall.axis = NoAxis
           THEN Squared(mresult.value.data[1])
                    = MeanSquares(mcall.true.data, mcall.pred.data)
           ELSE \A j \in 1..Remaining(mcall.true, mcall.axis[1]) :
                    Squared(mresult.value.data[j])
                        = MeanSquares(Line(mcall.true, mcall.axis[1], j).data,
                                      Line(mcall.pred, mcall.axis[1], j).data)

\* C10, as claimed: mae(a, a), mse(a, a) and rmse(a, a) are 0 for any array
\* a, and rmse(a, b) is the square root of mse(a, b).
C10_ZeroOnAnyArray ==
    /\ (mcall.fn \in {"mae", "mse", "rmse"} /\ mcall.true = mcall.pred
            /\ mresult.status = "ok")
           => AllZero(mresult.value)
    /\ RmseIsRootOfMse

\* C10, amended: mae(a, a), mse(a, a) and rmse(a, a) are 0 for any array a
\* that has an element and whose elements are all finite, and rmse(a, b) is
\* the square root of mse(a, b).
C10_ZeroOnFiniteArray ==
    /\ (mcall.fn \in {"mae", "mse", "rmse"} /\ mcall.true = mcall.pred
            /\ mresult.status = "ok"
            /\ Len(mcall.true.data) > 0 /\ AllFinite(mcall.true))
           => /\ AllZero(mresult.value)
              /\ Len(mresult.value.data) > 0
    /\ RmseIsRootOfMse

\* rmse of a matrix of finite values with itself, reduced along an axis
C10_Witness ==
    /\ Called("rmse")
    /\ mcall.true = mcall.pred
    /\ mcall.true.shape = <<2, 2>>
    /\ AllFinite(mcall.true)
    /\ \E i \in 1..4 : mcall.true.data[i] # Zero
    /\ mcall.axis = Axis(0)
    /\ mresult.value = Arr(<<2>>, <<Zero, Zero>>)

====
